---- MODULE Spec2Model ----
(***************************************************************************)
(* Model of the Sophnet clients.                                           *)
(*                                                                         *)
(* Speech to text (src/models/speech2text/speech2text.py): the             *)
(* transcription call _invoke, which submits a task, and the polling loop  *)
(* _poll_task_result, which reads the task's status until it is terminal   *)
(* or the attempt budget is spent.  Specifications Spec and FairSpec.      *)
(*                                                                         *)
(* Text embedding (src/models/text_embedding/text_embedding.py): _invoke,  *)
(* which truncates every text to the context size, posts the texts in      *)
(* batches of max_chunks and adds up the embeddings and the token usage.   *)
(* Specification SpecEmbed.                                                *)
(*                                                                         *)
(* Text to speech (src/models/tts/tts.py): the generator _invoke, which    *)
(* picks the voice and the mode, and the generators _invoke_streaming,     *)
(* which decodes the audio frames of the lines of a streamed response,     *)
(* and _invoke_non_streaming.  Specification SpecTTS.                      *)
(*                                                                         *)
(* Specification SpecAll is a call of any of the three.                    *)
(*                                                                         *)
(* A JSON object (a Python dict) is a function from the keys it holds to   *)
(* strings.  A formatted message (an f-string) is the sequence of its      *)
(* literal and interpolated parts.  An exception is a record of its type   *)
(* and its message.                                                        *)
(***************************************************************************)
EXTENDS Integers, Sequences, FiniteSets, TLC

VARIABLES
    entry,           \* the function the caller called
    credentials,     \* the credentials dict
    pc,              \* position: "build", "submit", "call", "poll", "sleep", "done"
    task_id,         \* the task id polled
    max_retries,     \* parameter of _poll_task_result
    interval,        \* parameter / local of _poll_task_result: the current wait
    base,            \* the value interval was called with
    retry,           \* the loop variable of for retry in range(max_retries)
    submitRequests,  \* POSTs issued, in order
    submitResponse,  \* what the POST came back with
    statusRequests,  \* GETs issued, in order
    sleeps,          \* arguments of the time.sleep calls that completed, in order
    keepPolling,     \* number of status responses received with status waiting or doing
    seen,            \* the status strings received so far
    lastResponse,    \* the last status response received
    pollOutcome,     \* how _poll_task_result ended
    invokeOutcome    \* how _invoke ended

\* text embedding
VARIABLES
    texts,           \* the caller's texts
    tokenizer,       \* the token counter _get_num_tokens_by_gpt2 stands for
    context_size,    \* _get_context_size(model, credentials)
    max_chunks,      \* _get_max_chunks(model, credentials)
    processed_texts, \* the texts after truncation
    cursor,          \* the loop variable i of range(0, len(processed_texts), max_chunks)
    all_embeddings,  \* the embeddings collected so far
    total_tokens,    \* the usage added up so far
    embedRequests,   \* the POSTs issued, in order
    outstanding,     \* POSTs issued whose response has not been taken
    lastUsage,       \* the usage field of the last response, when it was JSON
    reportedTokens,  \* what the responses reported as total_tokens, added up
    shapeFaults,     \* responses so far whose data was not one vector per text
    failedBatch,     \* the number of the request that failed, 0 when none has
    embedOutcome     \* how the embedding _invoke ended

speechVars == <<task_id, max_retries, interval, base, retry,
                submitRequests, submitResponse, statusRequests, sleeps, keepPolling,
                seen, lastResponse, pollOutcome, invokeOutcome>>

embedVars == <<texts, tokenizer, context_size, max_chunks, processed_texts, cursor,
               all_embeddings, total_tokens, embedRequests, outstanding,
               lastUsage, reportedTokens, shapeFaults, failedBatch, embedOutcome>>

\* text to speech
VARIABLES
    voice,           \* the voice the caller asked for
    content_text,    \* the caller's text
    sentences,       \* the texts of the request
    ttsRequests,     \* the POSTs issued, in order
    received,        \* the lines iter_lines has delivered, in order
    emitted,         \* the items the generator has yielded, in order
    waiting,         \* the consumer is in next(): the generator runs
    ttsOutcome,      \* how the generator ended
    splitCalls,      \* calls of self._split_text_into_sentences
    bodies,          \* the bodies the non-streaming endpoint has answered with
    nexts,           \* the consumer's calls of next()
    transport,       \* the response stream: "none", "open", "ended", "failed"
    connection       \* the HTTP connection: "none", "open", "released"

ttsVars == <<voice, content_text, sentences, ttsRequests, received, emitted,
             waiting, ttsOutcome, splitCalls, bodies, nexts, transport, connection>>

vars == <<entry, credentials, pc, speechVars, embedVars, ttsVars>>

-----------------------------------------------------------------------------
(* Program constants *)

DefaultMaxRetries == 60
DefaultInterval == 5
BackoffAfterRetry == 10
IntervalStep == 1
IntervalCeiling == 15
\* int(credentials.get("dimensions", 1024))
DefaultDimensions == 1024
\* if len(content_text) > 500
SplitThreshold == 500

(* Bounds of the model *)

\* max_retries of a direct call ranges over 0..SmallRetries and the default
SmallRetries == 3
\* interval of a direct call ranges over the default and the values within
\* BaseSpread of the ceiling
BaseSpread == 1
\* context_size ranges over 1..MaxContext, max_chunks over 1..MaxChunks
MaxContext == 2
MaxChunks == 2
\* a response that reports total_tokens reports 1..MaxUsage
MaxUsage == 1
\* at most MaxShapeFaults responses of a call carry a wrong number of vectors
MaxShapeFaults == 1
\* a streamed response delivers at most MaxLines lines
MaxLines == 3

-----------------------------------------------------------------------------
(* Values *)

EmptyDict == [k \in {} |-> ""]

\* the dicts that hold key k with a value of V, or do not hold it
Field(k, V) == {EmptyDict} \cup {k :> v : v \in V}

\* dict.get(key, default)
Get(d, key, default) == IF key \in DOMAIN d THEN d[key] ELSE default

\* Python truthiness of credentials.get(key): None and "" are falsy
Truthy(d, key) == key \in DOMAIN d /\ d[key] # ""

Min(a, b) == IF a <= b THEN a ELSE b

RECURSIVE SumSeq(_)
SumSeq(s) == IF s = <<>> THEN 0 ELSE s[1] + SumSeq(Tail(s))

NoExc == [type |-> "", msg |-> <<>>]
Exc(type, msg) == [type |-> type, msg |-> msg]

NoOutcome == [kind |-> "none", value |-> "", exc |-> NoExc]
Return(v) == [kind |-> "return", value |-> v, exc |-> NoExc]
Raise(e) == [kind |-> "raise", value |-> "", exc |-> e]
\* the loop body fell through to time.sleep
Continue == [kind |-> "continue", value |-> "", exc |-> NoExc]

-----------------------------------------------------------------------------
(* The remote service: what a request can come back with *)

StatusValues == {"waiting", "doing", "success", "failed", "paused"}
ResultValues == {"X"}
ErrorValues == {"boom"}
TaskIds == {"t1", "t2"}

StatusBodies ==
    {s @@ r @@ e : s \in Field("status", StatusValues),
                   r \in Field("result", ResultValues),
                   e \in Field("errorMsg", ErrorValues)}

\* requests.get / raise_for_status / response.json raising
HttpFailures ==
    {Exc("ConnectionError", <<"connection refused">>),
     Exc("HTTPError", <<"500 Server Error">>),
     Exc("JSONDecodeError", <<"Expecting value">>)}

NoResponse == [kind |-> "none", body |-> EmptyDict, exc |-> NoExc]
JsonResponse(b) == [kind |-> "json", body |-> b, exc |-> NoExc]
\* a JSON body that is not an object (a list): it has no get
ListResponse == [kind |-> "list", body |-> EmptyDict, exc |-> NoExc]
FailedResponse(e) == [kind |-> "failure", body |-> EmptyDict, exc |-> e]

\* the remote vocabulary's two states of a task that is not finished
IsNonTerminal(resp) ==
    /\ resp.kind = "json"
    /\ "status" \in DOMAIN resp.body
    /\ resp.body["status"] \in {"waiting", "doing"}

StatusResponses ==
    {JsonResponse(b) : b \in StatusBodies}
        \cup {ListResponse}
        \cup {FailedResponse(e) : e \in HttpFailures}

SubmitResponses ==
    {JsonResponse(b) : b \in Field("taskId", TaskIds)}
        \cup {ListResponse}
        \cup {FailedResponse(e) : e \in HttpFailures}

CredentialDicts ==
    {p @@ a @@ m : p \in Field("project_id", {"", "proj"}),
                   a \in Field("api_key", {"", "key"}),
                   m \in Field("easyllm_id", {"easy"})}

ValidCredentials == ("project_id" :> "proj") @@ ("api_key" :> "key")

ModelName == "model"

BaseIntervals ==
    {DefaultInterval} \cup ((IntervalCeiling - BaseSpread)..(IntervalCeiling + BaseSpread))

RetryBudgets == (0..SmallRetries) \cup {DefaultMaxRetries}

-----------------------------------------------------------------------------
(* _poll_task_result *)

\* a variant that loses the remote message
FailedMessage_DropsDetail(data) == <<"Transcription failed: ", "Unknown error">>

\* f"Transcription failed: {error_msg}"
FailedMessage(data) ==
    <<"Transcription failed: ", Get(data, "errorMsg", "Unknown error")>>

\* f"Unknown task status: {status}"
UnknownStatusMessage(status) == <<"Unknown task status: ", status>>

\* a variant that returns an empty transcription whatever the result field holds
StatusOutcome_IgnoresResult(data) ==
    LET status == Get(data, "status", "")
    IN  IF status = "success" THEN Return("")
        ELSE IF status = "failed"
            THEN Raise(Exc("InvokeBadRequestError", FailedMessage(data)))
        ELSE IF status = "waiting" THEN Continue
        ELSE IF status = "doing" THEN Continue
        ELSE Raise(Exc("InvokeBadRequestError", UnknownStatusMessage(status)))

\* a variant that keeps polling on a status it does not know
StatusOutcome_RetriesUnknown(data) ==
    LET status == Get(data, "status", "")
    IN  IF status = "success" THEN Return(Get(data, "result", ""))
        ELSE IF status = "failed"
            THEN Raise(Exc("InvokeBadRequestError", FailedMessage(data)))
        ELSE Continue

\* the if/elif chain on status
StatusOutcome(data) ==
    LET status == Get(data, "status", "")
    IN  IF status = "success" THEN Return(Get(data, "result", ""))
        ELSE IF status = "failed"
            THEN Raise(Exc("InvokeBadRequestError", FailedMessage(data)))
        ELSE IF status = "waiting" THEN Continue
        ELSE IF status = "doing" THEN Continue
        ELSE Raise(Exc("InvokeBadRequestError", UnknownStatusMessage(status)))

\* a variant that swallows a failed round trip and lets the loop go on
ExceptHandler_Swallows(e) ==
    IF e.type = "InvokeBadRequestError" THEN Raise(e) ELSE Continue

\* except Exception as e: an InvokeBadRequestError is raised again as it is,
\* anything else is wrapped in one
ExceptHandler(e) ==
    IF e.type = "InvokeBadRequestError" THEN Raise(e)
    ELSE Raise(Exc("InvokeBadRequestError",
                   <<"Failed to get transcription result: ">> \o e.msg))

\* the try body up to the sleep, and the except clause
PollCycle(resp) ==
    IF resp.kind = "failure" THEN ExceptHandler(resp.exc)
    ELSE IF resp.kind = "list"
        THEN ExceptHandler(Exc("AttributeError",
                               <<"'list' object has no attribute 'get'">>))
    ELSE LET o == StatusOutcome(resp.body)
         IN  IF o.kind = "raise" THEN ExceptHandler(o.exc) ELSE o

\* a variant without the ceiling
NextInterval_NoCeiling(r, i) ==
    IF r > BackoffAfterRetry THEN i + IntervalStep ELSE i

\* a variant that starts the backoff one iteration earlier
NextInterval_StartsEarlier(r, i) ==
    IF r >= BackoffAfterRetry /\ i < IntervalCeiling
    THEN Min(i + IntervalStep, IntervalCeiling)
    ELSE i

\* if retry > 10 and interval < 15: interval = min(interval + 1, 15)
NextInterval(r, i) ==
    IF r > BackoffAfterRetry /\ i < IntervalCeiling
    THEN Min(i + IntervalStep, IntervalCeiling)
    ELSE i

\* a variant that runs the loop once more
LoopContinues_OneMore(r, m) == r <= m

\* for retry in range(max_retries): another iteration follows
LoopContinues(r, m) == r < m

\* f"Transcription task {task_id} timed out after {max_retries * interval} seconds"
TimeoutMessage(t, m, i) ==
    <<"Transcription task ", t, " timed out after ", ToString(m * i), " seconds">>

TimedOut(t, m, i) == Raise(Exc("InvokeBadRequestError", TimeoutMessage(t, m, i)))

\* a variant that formats the project id where the task id belongs
StatusRequest_WrongId(c, t) ==
    [method |-> "GET",
     project |-> Get(c, "project_id", "None"),
     task |-> Get(c, "project_id", "None"),
     bearer |-> Get(c, "api_key", "None")]

\* url = f".../projects/{project_id}/easyllms/speechtotext/transcriptions/{task_id}"
StatusRequest(c, t) ==
    [method |-> "GET",
     project |-> Get(c, "project_id", "None"),
     task |-> t,
     bearer |-> Get(c, "api_key", "None")]

-----------------------------------------------------------------------------
(* _invoke *)

\* _build_request_params: the exception it raises, or NoExc
BuildError(c) ==
    IF ~Truthy(c, "project_id") THEN Exc("ValueError", <<"project_id is required">>)
    ELSE IF ~Truthy(c, "api_key") THEN Exc("ValueError", <<"api_key is required">>)
    ELSE NoExc

SubmitRequest(c) ==
    [method |-> "POST",
     project |-> c["project_id"],
     easyllm_id |-> Get(c, "easyllm_id", ModelName),
     bearer |-> c["api_key"]]

\* except Exception as e: raise InvokeBadRequestError(f"...call failed: {e}")
InvokeWrap(e) ==
    Raise(Exc("InvokeBadRequestError",
              <<"Sophnet speech2text API call failed: ">> \o e.msg))

\* what _invoke ends with when the poll it called ended with o
InvokeResult(o) == IF o.kind = "raise" THEN InvokeWrap(o.exc) ELSE o

\* the poll ended with o: _invoke, when it is the caller, ends too
Finish(o) ==
    /\ pollOutcome' = o
    /\ invokeOutcome' = IF entry = "_invoke" THEN InvokeResult(o) ELSE invokeOutcome
    /\ pc' = "done"

-----------------------------------------------------------------------------
(* Text embedding: the caller's inputs and the remote service *)

\* five texts, each a sequence of characters, one of them empty
Corpus == <<<<"a">>, <<"b", "c">>, <<"d", "e", "f">>, <<>>, <<"g">>>>

\* the lists of texts a caller passes: the first n texts of the corpus
TextLists == {SubSeq(Corpus, 1, n) : n \in 0..Len(Corpus)}

\* the token counters: perChar tokens a character, less the merged ones
Tokenizers == [perChar : {1, 2}, merged : {0, 1}]

\* the vector the remote service computes for a text
VectorOf(text) == <<"vector", text>>
\* a vector that belongs to no text of the batch
StrayVector == <<"stray", <<>>>>

\* the "data" field of a response: absent, or a list of items
DataAbsent == [state |-> "absent", items |-> <<>>]
DataList(items) == [state |-> "list", items |-> items]

\* one item per text of the batch, in the batch's order
HonestItems(batch) == [k \in DOMAIN batch |-> [embedding |-> VectorOf(batch[k])]]

\* the data a response to batch can carry when faulty holds
DataShapes(batch, faulty) ==
    {DataList(HonestItems(batch))}
        \cup (IF faulty
              THEN {DataList(SubSeq(HonestItems(batch), 1, Len(batch) - 1)),
                    DataList(Append(HonestItems(batch), [embedding |-> StrayVector])),
                    DataAbsent}
              ELSE {})

\* the "usage" field of a response: absent, null, or an object whose
\* total_tokens is absent, null or a number
UsageShapes ==
    {[state |-> "absent", total |-> "absent", tokens |-> 0],
     [state |-> "null", total |-> "absent", tokens |-> 0],
     [state |-> "object", total |-> "absent", tokens |-> 0],
     [state |-> "object", total |-> "null", tokens |-> 0]}
        \cup {[state |-> "object", total |-> "int", tokens |-> n] : n \in 1..MaxUsage}

\* no response has been taken
NoUsage == [state |-> "none", total |-> "absent", tokens |-> 0]

NoEmbedResponse == [kind |-> "none", data |-> DataAbsent, usage |-> NoUsage, exc |-> NoExc]

\* what the POST of batch can come back with
EmbedResponses(batch, faulty) ==
    {[kind |-> "json", data |-> d, usage |-> u, exc |-> NoExc] :
        d \in DataShapes(batch, faulty), u \in UsageShapes}
        \cup {[NoEmbedResponse EXCEPT !.kind = "list"]}
        \cup {[NoEmbedResponse EXCEPT !.kind = "failure", !.exc = e] :
                  e \in HttpFailures \cup {Exc("Timeout", <<"Read timed out">>)}}

\* the response carries exactly one vector per text of the batch
OneVectorPerText(resp, batch) ==
    resp.kind = "json" /\ resp.data = DataList(HonestItems(batch))

\* what the response reports as total_tokens
Reported(resp) ==
    IF resp.kind = "json" /\ resp.usage.state = "object" /\ resp.usage.total = "int"
    THEN resp.usage.tokens ELSE 0

EmbedCredentialDicts ==
    {p @@ a : p \in Field("project_id", {"", "proj"}),
              a \in Field("api_key", {"", "key"})}

-----------------------------------------------------------------------------
(* SophnetTextEmbeddingModel._invoke *)

\* _add_custom_parameters: the exception it raises, or NoExc
EmbedBuildError(c) ==
    IF ~Truthy(c, "project_id") THEN Exc("ValueError", <<"project_id is required">>)
    ELSE IF ~Truthy(c, "api_key") THEN Exc("ValueError", <<"api_key is required">>)
    ELSE NoExc

\* credentials["endpoint_url"] = f".../projects/{project_id}/easyllms"
WithEndpoint(c) ==
    ("endpoint_url" :> <<"https://www.sophnet.com/api/open-apis/projects/",
                         c["project_id"], "/easyllms">>) @@ c

\* self._get_num_tokens_by_gpt2(text): no token in an empty text, one at
\* least in any other
NumTokens(tk, text) ==
    IF Len(text) = 0 THEN 0
    ELSE IF Len(text) * tk.perChar - tk.merged < 1 THEN 1
    ELSE Len(text) * tk.perChar - tk.merged

\* a variant that rounds up
Cutoff_RoundsUp(len, ctx, num) == (len * ctx + num - 1) \div num

\* int(len(text) * context_size / num_tokens): the operands are not
\* negative, so int() is the floor
Cutoff(len, ctx, num) == (len * ctx) \div num

\* one iteration of the truncation loop: text[:cutoff], or text
ProcessText(tk, ctx, text) ==
    IF NumTokens(tk, text) > ctx
    THEN SubSeq(text, 1, Cutoff(Len(text), ctx, NumTokens(tk, text)))
    ELSE text

\* the truncation loop
ProcessTexts(tk, ctx, ts) == [k \in DOMAIN ts |-> ProcessText(tk, ctx, ts[k])]

\* range(0, len(processed_texts), max_chunks) has a value i
HasBatch(i, n) == i < n

\* a variant whose batches overlap by one text
BatchOf_Overlaps(ps, i, b) == SubSeq(ps, IF i > 0 THEN i ELSE 1, Min(i + b, Len(ps)))

\* processed_texts[i:i+max_chunks]
BatchOf(ps, i, b) == SubSeq(ps, i + 1, Min(i + b, Len(ps)))

\* the POST of the batch at i: the loop variable and the request
EmbedRequest(c, ps, i, b) ==
    [i |-> i,
     url |-> c["endpoint_url"] \o <<"/", "embeddings">>,
     bearer |-> c["api_key"],
     easyllm_id |-> Get(c, "easyllm_id", ModelName),
     input_texts |-> BatchOf(ps, i, b),
     dimensions |-> DefaultDimensions]

\* a variant that takes the POST for done when it is issued
AfterPost_NoWait == "embed_post"

\* requests.post returns when the response has come: until then the loop waits
AfterPost == "embed_wait"

\* [item["embedding"] for item in data.get("data", [])]
BatchEmbeddings(data) == [k \in DOMAIN data.items |-> data.items[k].embedding]

\* a variant that counts a usage without total_tokens as one token
UsageTokens_CountsMissing(usage) ==
    IF usage.state = "object" /\ usage.total = "int" THEN usage.tokens ELSE 1

\* usage.get("total_tokens", 0) or 0, for usage = data.get("usage", {})
\* that is a dict
UsageTokens(usage) ==
    IF usage.state = "object" /\ usage.total = "int" THEN usage.tokens ELSE 0

\* except Exception as e: raise RuntimeError(f"...call failed: {e}")
EmbedWrap(e) == Exc("RuntimeError", <<"Sophnet embedding API call failed: ">> \o e.msg)

\* a variant that goes on after a request that failed
ResponseError_GoesOn(resp) ==
    IF resp.kind = "list"
        THEN Exc("AttributeError", <<"'list' object has no attribute 'get'">>)
    ELSE IF resp.usage.state = "null"
        THEN Exc("AttributeError", <<"'NoneType' object has no attribute 'get'">>)
    ELSE NoExc

\* the exception the handling of a response ends with, or NoExc
ResponseError(resp) ==
    IF resp.kind = "failure" THEN EmbedWrap(resp.exc)
    ELSE IF resp.kind = "list"
        THEN Exc("AttributeError", <<"'list' object has no attribute 'get'">>)
    ELSE IF resp.usage.state = "null"
        THEN Exc("AttributeError", <<"'NoneType' object has no attribute 'get'">>)
    ELSE NoExc

NoEmbedOutcome == [kind |-> "none", embeddings |-> <<>>, tokens |-> 0, exc |-> NoExc]
\* TextEmbeddingResult(embeddings=all_embeddings, usage=usage_obj, model=model)
EmbedReturn(e, t) == [kind |-> "return", embeddings |-> e, tokens |-> t, exc |-> NoExc]
EmbedRaise(e) == [kind |-> "raise", embeddings |-> <<>>, tokens |-> 0, exc |-> e]

-----------------------------------------------------------------------------
(* Text to speech: the caller's inputs and the remote service *)

DEFAULT_MODEL == "cosyvoice-v1"
DEFAULT_VOICE == "longxiaochun"

\* the modes of SUPPORTED_VOICES
SUPPORTED_VOICES ==
    {"longxiaochun", "longxiaoxia", "longxiaocheng", "longxiaobai", "longlaotie",
     "longshu", "longshuo", "longjing", "longyue", "longwan", "longcheng",
     "longhua", "loongstella", "loongbella"}

\* the voices a caller asks for: none (None or ""), a supported one, another
RequestedVoices == {"", "longxiaoxia", "robot"}

\* a text is known by its length; a piece of it by its first and last place
ContentTexts == {[len |-> 0], [len |-> SplitThreshold], [len |-> SplitThreshold + 1]}
Piece(from, to) == [from |-> from, to |-> to]

\* self._split_text_into_sentences(content_text, max_length=500): the
\* pieces of the text in order, cut after the first place or at max_length
SplitResults(text, max_length) ==
    {<<Piece(1, k), Piece(k + 1, text.len)>> : k \in {1, max_length}}

TtsCredentialDicts ==
    {p @@ a @@ m @@ f : p \in Field("project_id", {"", "proj"}),
                        a \in Field("api_key", {"", "key"}),
                        m \in Field("easyllm_id", {"", "easy"}),
                        f \in Field("streaming", {TRUE, FALSE})}

\* the payloads of the data lines of a stream
FramePayloads == {"{\"audioFrame\":\"aGk=\"}", "{\"audioFrame\":\"Ynll\"}"}
QuietPayloads == {"{\"status\":\"ok\"}", "{\"audioFrame\":\"\"}"}
MalformedPayloads == {"not-json"}
CorruptPayloads == {"5", "null", "[1]", "{\"audioFrame\":\"abc\"}"}

\* a line is the sequence of its parts: nothing, or a prefix and the rest
StreamLines ==
    {<<>>, <<"event:", "ping">>}
        \cup {<<"data:", p>> : p \in FramePayloads \cup QuietPayloads
                                      \cup MalformedPayloads \cup CorruptPayloads}

\* requests.post / raise_for_status raising
PostFailures ==
    {Exc("ConnectionError", <<"connection refused">>),
     Exc("Timeout", <<"Read timed out">>),
     Exc("HTTPError", <<"500 Server Error">>)}

\* response.iter_lines raising: the connection broke, or no data came for
\* the time of the timeout, before the stream ended
StreamFailures ==
    {Exc("ChunkedEncodingError", <<"Connection broken">>),
     Exc("ConnectionError", <<"Read timed out">>)}

\* the connection after requests.post or raise_for_status raised e: there
\* is none when the request failed; after a status that is not 2xx the
\* body of a streamed response is unread and the connection is held, while
\* the body of another response has been read and the connection released
ConnectionAfterFailure(e, streaming) ==
    IF e.type # "HTTPError" THEN "none"
    ELSE IF streaming THEN "open"
    ELSE "released"

\* response.content of the non-streaming endpoint
AudioBodies == {"audio"}

-----------------------------------------------------------------------------
(* SophnetText2SpeechModel *)

\* a variant that does not ask for easyllm_id
TtsBuildError_NoModelCheck(c) ==
    IF ~Truthy(c, "project_id") THEN Exc("ValueError", <<"project_id is required">>)
    ELSE IF ~Truthy(c, "api_key") THEN Exc("ValueError", <<"api_key is required">>)
    ELSE NoExc

\* _build_request_params: the exception it raises, or NoExc
TtsBuildError(c) ==
    IF ~Truthy(c, "project_id") THEN Exc("ValueError", <<"project_id is required">>)
    ELSE IF ~Truthy(c, "api_key") THEN Exc("ValueError", <<"api_key is required">>)
    ELSE IF ~Truthy(c, "easyllm_id") THEN Exc("ValueError", <<"easyllm_id is required">>)
    ELSE NoExc

\* a variant that sends the voice it was asked for
EffectiveVoice_AsAsked(v) == v

\* if not voice or voice not in [v["mode"] for v in self.SUPPORTED_VOICES]
EffectiveVoice(v) == IF v = "" \/ v \notin SUPPORTED_VOICES THEN DEFAULT_VOICE ELSE v

\* a variant whose default is the non-streaming mode
Streaming_DefaultOff(c) == Get(c, "streaming", FALSE)

\* credentials.get("streaming", True)
Streaming(c) == Get(c, "streaming", TRUE)

\* a variant that splits a text of the threshold's length too
NeedsSplit_AtThreshold(text) == text.len >= SplitThreshold

\* if len(content_text) > 500
NeedsSplit(text) == text.len > SplitThreshold

\* the sentences of the request: the splitter's for a long text, else the text
SentencesOf(text) ==
    IF NeedsSplit(text)
    THEN SplitResults(text, SplitThreshold)
    ELSE {<<Piece(1, text.len)>>}

\* url, headers, payload of _build_request_params
TtsRequest(c, ss, v, streaming) ==
    [method |-> "POST",
     project |-> c["project_id"],
     endpoint |-> IF streaming THEN "voice/synthesize-audio-stream"
                               ELSE "voice/synthesize-audio",
     bearer |-> c["api_key"],
     easyllm_id |-> Get(c, "easyllm_id", "None"),
     text |-> ss,
     model |-> DEFAULT_MODEL,
     voice |-> v,
     stream |-> streaming]

\* json.loads of the payloads: an object, a number, None, a list, or
\* JSONDecodeError
JsonLoads(p) ==
    IF p = "{\"audioFrame\":\"aGk=\"}" THEN [kind |-> "object", obj |-> "audioFrame" :> "aGk="]
    ELSE IF p = "{\"audioFrame\":\"Ynll\"}" THEN [kind |-> "object", obj |-> "audioFrame" :> "Ynll"]
    ELSE IF p = "{\"audioFrame\":\"abc\"}" THEN [kind |-> "object", obj |-> "audioFrame" :> "abc"]
    ELSE IF p = "{\"audioFrame\":\"\"}" THEN [kind |-> "object", obj |-> "audioFrame" :> ""]
    ELSE IF p = "{\"status\":\"ok\"}" THEN [kind |-> "object", obj |-> "status" :> "ok"]
    ELSE IF p = "5" THEN [kind |-> "number", obj |-> EmptyDict]
    ELSE IF p = "null" THEN [kind |-> "null", obj |-> EmptyDict]
    ELSE IF p = "[1]" THEN [kind |-> "list", obj |-> EmptyDict]
    ELSE [kind |-> "error", obj |-> EmptyDict]

\* base64.b64decode: the bytes, or binascii.Error
B64Decode(b) ==
    IF b = "" THEN [ok |-> TRUE, bytes |-> ""]
    ELSE IF b = "aGk=" THEN [ok |-> TRUE, bytes |-> "hi"]
    ELSE IF b = "Ynll" THEN [ok |-> TRUE, bytes |-> "bye"]
    ELSE [ok |-> FALSE, bytes |-> ""]

\* what a line does to the generator
Skip == [kind |-> "skip", frame |-> "", exc |-> NoExc]
YieldFrame(f) == [kind |-> "frame", frame |-> f, exc |-> NoExc]
LineRaise(e) == [kind |-> "raise", frame |-> "", exc |-> e]

\* except Exception as e: raise InvokeBadRequestError(f"...call failed: {e}")
StreamingWrap(e) ==
    Exc("InvokeBadRequestError", <<"Sophnet TTS streaming API call failed: ">> \o e.msg)

NonStreamingWrap(e) ==
    Exc("InvokeBadRequestError", <<"Sophnet TTS non-streaming API call failed: ">> \o e.msg)

\* a variant that lets the JSONDecodeError reach the outer except clause
MalformedJson_Fatal ==
    LineRaise(StreamingWrap(Exc("JSONDecodeError", <<"Expecting value">>)))

\* except json.JSONDecodeError: continue
MalformedJson == Skip

\* line.startswith('data:')
StartsWithData(line) == line[1] = "data:"

\* line[5:]
Rest(line) == IF Len(line) >= 2 THEN line[2] ELSE ""

\* a variant that emits a frame for an empty audioFrame too
HasFrame_EmptyToo(obj) == "audioFrame" \in DOMAIN obj

\* 'audioFrame' in data and data['audioFrame']
HasFrame(obj) == "audioFrame" \in DOMAIN obj /\ obj["audioFrame"] # ""

\* the body of the loop over response.iter_lines, lines 129-141, with the
\* outer except clause for what the body raises
LineOutcome(line) ==
    IF line = <<>> THEN Skip
    ELSE IF ~StartsWithData(line) THEN Skip
    ELSE LET data == JsonLoads(Rest(line))
         IN  IF data.kind = "error" THEN MalformedJson
             ELSE IF data.kind = "number"
                 THEN LineRaise(StreamingWrap(
                          Exc("TypeError", <<"argument of type 'int' is not iterable">>)))
             ELSE IF data.kind = "null"
                 THEN LineRaise(StreamingWrap(
                          Exc("TypeError", <<"argument of type 'NoneType' is not iterable">>)))
             ELSE IF data.kind = "list" THEN Skip
             ELSE IF ~HasFrame(data.obj) THEN Skip
             ELSE IF B64Decode(data.obj["audioFrame"]).ok
                 THEN YieldFrame(B64Decode(data.obj["audioFrame"]).bytes)
             ELSE LineRaise(StreamingWrap(Exc("Error", <<"Incorrect padding">>)))

NoTtsOutcome == [kind |-> "none", exc |-> NoExc]
\* the generator returned: the consumer's next() raises StopIteration
Exhausted == [kind |-> "exhausted", exc |-> NoExc]
TtsRaise(e) == [kind |-> "raise", exc |-> e]
\* the consumer closed the generator: GeneratorExit at the yield it stood
\* at, which except Exception does not catch
Closed == [kind |-> "closed", exc |-> NoExc]

\* a variant that takes a broken stream for its end
StreamBroken_EndsQuietly(e) == Exhausted

\* iter_lines raising e inside the try: the outer except clause
StreamBroken(e) == TtsRaise(StreamingWrap(e))

\* a variant of a generator that runs on after it has yielded
AfterYield_RunsOn == TRUE

\* yield audio_bytes: the generator stands still until the next next()
AfterYield == FALSE

-----------------------------------------------------------------------------
(* Initial states: a call of _invoke, or a call of _poll_task_result *)

\* no embedding call is under way
EmbedIdle ==
    /\ texts = <<>>
    /\ tokenizer = [perChar |-> 1, merged |-> 0]
    /\ context_size = 1
    /\ max_chunks = 1
    /\ processed_texts = <<>>
    /\ cursor = 0
    /\ all_embeddings = <<>>
    /\ total_tokens = 0
    /\ embedRequests = <<>>
    /\ outstanding = 0
    /\ lastUsage = NoUsage
    /\ reportedTokens = 0
    /\ shapeFaults = 0
    /\ failedBatch = 0
    /\ embedOutcome = NoEmbedOutcome

\* no synthesis call is under way
TtsIdle ==
    /\ voice = ""
    /\ content_text = [len |-> 0]
    /\ sentences = <<>>
    /\ ttsRequests = <<>>
    /\ received = <<>>
    /\ emitted = <<>>
    /\ waiting = FALSE
    /\ ttsOutcome = NoTtsOutcome
    /\ splitCalls = 0
    /\ bodies = <<>>
    /\ nexts = 0
    /\ transport = "none"
    /\ connection = "none"

\* no transcription call is under way
SpeechIdle ==
    /\ task_id = ""
    /\ max_retries = 0
    /\ interval = 0
    /\ base = 0
    /\ retry = 0
    /\ submitRequests = <<>>
    /\ submitResponse = NoResponse
    /\ statusRequests = <<>>
    /\ sleeps = <<>>
    /\ keepPolling = 0
    /\ seen = {}
    /\ lastResponse = NoResponse
    /\ pollOutcome = NoOutcome
    /\ invokeOutcome = NoOutcome

Init ==
    /\ entry \in {"_invoke", "_poll_task_result"}
    /\ IF entry = "_invoke"
       THEN /\ credentials \in CredentialDicts
            /\ pc = "build"
            /\ task_id = ""
            /\ max_retries = 0
            /\ interval = 0
       ELSE /\ credentials = ValidCredentials
            /\ pc = "call"
            /\ task_id = "t0"
            /\ max_retries \in RetryBudgets
            /\ interval \in BaseIntervals
    /\ base = interval
    /\ retry = 0
    /\ submitRequests = <<>>
    /\ submitResponse = NoResponse
    /\ statusRequests = <<>>
    /\ sleeps = <<>>
    /\ keepPolling = 0
    /\ seen = {}
    /\ lastResponse = NoResponse
    /\ pollOutcome = NoOutcome
    /\ invokeOutcome = NoOutcome
    /\ EmbedIdle
    /\ TtsIdle

\* a call of the embedding _invoke
InitEmbed ==
    /\ entry = "embedding._invoke"
    /\ credentials \in EmbedCredentialDicts
    /\ pc = "embed"
    /\ texts \in TextLists
    /\ tokenizer \in Tokenizers
    /\ context_size \in 1..MaxContext
    /\ max_chunks \in 1..MaxChunks
    /\ processed_texts = <<>>
    /\ cursor = 0
    /\ all_embeddings = <<>>
    /\ total_tokens = 0
    /\ embedRequests = <<>>
    /\ outstanding = 0
    /\ lastUsage = NoUsage
    /\ reportedTokens = 0
    /\ shapeFaults = 0
    /\ failedBatch = 0
    /\ embedOutcome = NoEmbedOutcome
    /\ SpeechIdle
    /\ TtsIdle

\* a call of the text-to-speech _invoke: the generator is created and has
\* not run
InitTTS ==
    /\ entry = "tts._invoke"
    /\ credentials \in TtsCredentialDicts
    /\ pc = "tts_start"
    /\ voice \in RequestedVoices
    /\ content_text \in ContentTexts
    /\ sentences = <<>>
    /\ ttsRequests = <<>>
    /\ received = <<>>
    /\ emitted = <<>>
    /\ waiting = FALSE
    /\ ttsOutcome = NoTtsOutcome
    /\ splitCalls = 0
    /\ bodies = <<>>
    /\ nexts = 0
    /\ transport = "none"
    /\ connection = "none"
    /\ SpeechIdle
    /\ EmbedIdle

\* a call of any of the three
InitAll == Init \/ InitEmbed \/ InitTTS

-----------------------------------------------------------------------------
(* Actions *)

\* _invoke: url, headers, easyllm_id = self._build_request_params(...),
\* outside the try
BuildRequestParams ==
    /\ pc = "build"
    /\ IF BuildError(credentials) # NoExc
       THEN /\ invokeOutcome' = Raise(BuildError(credentials))
            /\ pc' = "done"
       ELSE /\ pc' = "submit"
            /\ UNCHANGED invokeOutcome
    /\ UNCHANGED <<entry, credentials, task_id, max_retries, interval, base, retry,
                   submitRequests, submitResponse, statusRequests, sleeps,
                   keepPolling, seen, lastResponse, pollOutcome>>
    /\ UNCHANGED <<embedVars, ttsVars>>

\* _invoke: the POST, the taskId check and the call of _poll_task_result
\* with its default max_retries and interval; 'taskId' not in task_data is
\* true of a list too
SubmitTask ==
    /\ pc = "submit"
    /\ submitRequests' = Append(submitRequests, SubmitRequest(credentials))
    /\ \E resp \in SubmitResponses :
         /\ submitResponse' = resp
         /\ IF resp.kind = "json" /\ "taskId" \in DOMAIN resp.body
            THEN /\ task_id' = resp.body["taskId"]
                 /\ max_retries' = DefaultMaxRetries
                 /\ interval' = DefaultInterval
                 /\ base' = DefaultInterval
                 /\ pc' = "call"
                 /\ UNCHANGED invokeOutcome
            ELSE /\ invokeOutcome' =
                      IF resp.kind = "failure" THEN InvokeWrap(resp.exc)
                      ELSE InvokeWrap(Exc("InvokeBadRequestError",
                                          <<"Failed to create transcription task: ",
                                            "response.text">>))
                 /\ pc' = "done"
                 /\ UNCHANGED <<task_id, max_retries, interval, base>>
    /\ UNCHANGED <<entry, credentials, retry, statusRequests, sleeps, keepPolling,
                   seen, lastResponse, pollOutcome>>
    /\ UNCHANGED <<embedVars, ttsVars>>

\* _poll_task_result is entered: the for loop starts, or is empty
CallPoll ==
    /\ pc = "call"
    /\ retry' = 0
    /\ IF LoopContinues(0, max_retries)
       THEN /\ pc' = "poll"
            /\ UNCHANGED <<pollOutcome, invokeOutcome>>
       ELSE Finish(TimedOut(task_id, max_retries, interval))
    /\ UNCHANGED <<entry, credentials, task_id, max_retries, interval, base,
                   submitRequests, submitResponse, statusRequests, sleeps,
                   keepPolling, seen, lastResponse>>
    /\ UNCHANGED <<embedVars, ttsVars>>

\* one iteration of the loop up to time.sleep: the GET and the dispatch
Poll ==
    /\ pc = "poll"
    /\ statusRequests' = Append(statusRequests, StatusRequest(credentials, task_id))
    /\ \E resp \in StatusResponses :
         /\ lastResponse' = resp
         /\ keepPolling' = keepPolling + (IF IsNonTerminal(resp) THEN 1 ELSE 0)
         /\ seen' = seen \cup (IF resp.kind = "json" /\ "status" \in DOMAIN resp.body
                                THEN {resp.body["status"]} ELSE {})
         /\ LET o == PollCycle(resp)
            IN  IF o.kind = "continue"
                THEN /\ pc' = "sleep"
                     /\ UNCHANGED <<pollOutcome, invokeOutcome>>
                ELSE Finish(o)
    /\ UNCHANGED <<entry, credentials, task_id, max_retries, interval, base, retry,
                   submitRequests, submitResponse, sleeps>>
    /\ UNCHANGED <<embedVars, ttsVars>>

\* the rest of the iteration: time.sleep(interval), the backoff, and the
\* loop's next iteration or its end and the raise after it
Sleep ==
    /\ pc = "sleep"
    /\ sleeps' = Append(sleeps, interval)
    /\ interval' = NextInterval(retry, interval)
    /\ IF LoopContinues(retry + 1, max_retries)
       THEN /\ retry' = retry + 1
            /\ pc' = "poll"
            /\ UNCHANGED <<pollOutcome, invokeOutcome>>
       ELSE /\ Finish(TimedOut(task_id, max_retries, interval'))
            /\ UNCHANGED retry
    /\ UNCHANGED <<entry, credentials, task_id, max_retries, base,
                   submitRequests, submitResponse, statusRequests, keepPolling,
                   seen, lastResponse>>
    /\ UNCHANGED <<embedVars, ttsVars>>

\* embedding _invoke, lines 40-57: the parameters, the truncation loop and
\* the start of the batch loop, or its end when there is no text
EmbedStart ==
    /\ pc = "embed"
    /\ IF EmbedBuildError(credentials) # NoExc
       THEN /\ embedOutcome' = EmbedRaise(EmbedBuildError(credentials))
            /\ pc' = "done"
            /\ UNCHANGED <<credentials, processed_texts>>
       ELSE /\ credentials' = WithEndpoint(credentials)
            /\ processed_texts' = ProcessTexts(tokenizer, context_size, texts)
            /\ IF HasBatch(0, Len(processed_texts'))
               THEN /\ pc' = "embed_post"
                    /\ UNCHANGED embedOutcome
               ELSE /\ pc' = "done"
                    /\ embedOutcome' = EmbedReturn(<<>>, 0)
    /\ cursor' = 0
    /\ all_embeddings' = <<>>
    /\ total_tokens' = 0
    /\ UNCHANGED <<entry, texts, tokenizer, context_size, max_chunks, embedRequests,
                   outstanding, lastUsage, reportedTokens, shapeFaults, failedBatch>>
    /\ UNCHANGED <<speechVars, ttsVars>>

\* the batch loop, lines 60-67: the slice, the payload and the POST going out
SendBatch ==
    /\ pc = "embed_post"
    /\ embedRequests' =
          Append(embedRequests,
                 EmbedRequest(credentials, processed_texts, cursor, max_chunks))
    /\ outstanding' = outstanding + 1
    /\ pc' = AfterPost
    /\ UNCHANGED <<entry, credentials, texts, tokenizer, context_size, max_chunks,
                   processed_texts, cursor, all_embeddings, total_tokens,
                   lastUsage, reportedTokens, shapeFaults, failedBatch, embedOutcome>>
    /\ UNCHANGED <<speechVars, ttsVars>>

\* the batch loop, lines 67-77: the POST coming back, the except clause,
\* the embeddings and the usage; then the next batch, or lines 80-86
ReceiveBatch ==
    /\ pc = "embed_wait"
    /\ outstanding' = outstanding - 1
    /\ LET batch == BatchOf(processed_texts, cursor, max_chunks)
       IN  \E resp \in EmbedResponses(batch, shapeFaults < MaxShapeFaults) :
             /\ lastUsage' = resp.usage
             /\ reportedTokens' = reportedTokens + Reported(resp)
             /\ shapeFaults' =
                   shapeFaults + (IF resp.kind = "json" /\ ~OneVectorPerText(resp, batch)
                                  THEN 1 ELSE 0)
             /\ failedBatch' =
                   IF resp.kind = "failure" THEN Len(embedRequests) ELSE failedBatch
             /\ all_embeddings' =
                   IF resp.kind = "json"
                   THEN all_embeddings \o BatchEmbeddings(resp.data)
                   ELSE all_embeddings
             /\ IF ResponseError(resp) # NoExc
                THEN /\ embedOutcome' = EmbedRaise(ResponseError(resp))
                     /\ pc' = "done"
                     /\ UNCHANGED <<total_tokens, cursor>>
                ELSE /\ total_tokens' = total_tokens + UsageTokens(resp.usage)
                     /\ cursor' = cursor + max_chunks
                     /\ IF HasBatch(cursor', Len(processed_texts))
                        THEN /\ pc' = "embed_post"
                             /\ UNCHANGED embedOutcome
                        ELSE /\ pc' = "done"
                             /\ embedOutcome' = EmbedReturn(all_embeddings', total_tokens')
    /\ UNCHANGED <<entry, credentials, texts, tokenizer, context_size, max_chunks,
                   processed_texts, embedRequests>>
    /\ UNCHANGED <<speechVars, ttsVars>>

\* the steps of a transcription call
Next ==
    \/ BuildRequestParams
    \/ SubmitTask
    \/ CallPoll
    \/ Poll
    \/ Sleep

Spec == Init /\ [][Next]_vars

\* the calling thread runs: a blocking call always takes its next step
FairSpec == Spec /\ WF_vars(Next)

\* the steps of an embedding call
NextEmbed ==
    \/ EmbedStart
    \/ SendBatch
    \/ ReceiveBatch

SpecEmbed == InitEmbed /\ [][NextEmbed]_vars

\* the generator ends with o
TtsEnd(o) ==
    /\ ttsOutcome' = o
    /\ pc' = "done"
    /\ waiting' = FALSE

\* the consumer calls next() on the generator
ConsumerNext ==
    /\ pc \in {"tts_start", "tts_read", "tts_content"}
    /\ ~waiting
    /\ waiting' = TRUE
    /\ nexts' = nexts + 1
    /\ UNCHANGED <<entry, credentials, pc, voice, content_text, sentences,
                   ttsRequests, received, emitted, ttsOutcome, splitCalls, bodies,
                   transport, connection>>
    /\ UNCHANGED <<speechVars, embedVars>>

\* the consumer gives the generator up: close() on a generator that has
\* not started, or that stands at a yield, ends it and runs no clause of
\* _invoke_streaming or _invoke_non_streaming, which have no finally
ConsumerClose ==
    /\ pc \in {"tts_start", "tts_read", "tts_content"}
    /\ ~waiting
    /\ TtsEnd(Closed)
    /\ UNCHANGED <<entry, credentials, voice, content_text, sentences,
                   ttsRequests, received, emitted, splitCalls, bodies, nexts,
                   transport, connection>>
    /\ UNCHANGED <<speechVars, embedVars>>

\* _invoke, lines 89-105, and the head of _invoke_streaming or
\* _invoke_non_streaming up to the try: the voice, the mode, the sentences
\* and _build_request_params
TtsStart ==
    /\ pc = "tts_start"
    /\ waiting
    /\ \E ss \in SentencesOf(content_text) : sentences' = ss
    /\ splitCalls' = splitCalls + (IF NeedsSplit(content_text) THEN 1 ELSE 0)
    /\ IF TtsBuildError(credentials) # NoExc
       THEN TtsEnd(TtsRaise(TtsBuildError(credentials)))
       ELSE /\ pc' = "tts_post"
            /\ UNCHANGED <<waiting, ttsOutcome>>
    /\ UNCHANGED <<entry, credentials, voice, content_text, ttsRequests, received,
                   emitted, bodies, nexts, transport, connection>>
    /\ UNCHANGED <<speechVars, embedVars>>

\* requests.post and raise_for_status; of _invoke_non_streaming also the
\* yield of response.content
TtsPost ==
    /\ pc = "tts_post"
    /\ waiting
    /\ ttsRequests' =
          Append(ttsRequests,
                 TtsRequest(credentials, sentences, EffectiveVoice(voice),
                            Streaming(credentials)))
    /\ \/ \E e \in PostFailures :
             /\ TtsEnd(TtsRaise(IF Streaming(credentials) THEN StreamingWrap(e)
                                                          ELSE NonStreamingWrap(e)))
             /\ transport' = "failed"
             /\ connection' = ConnectionAfterFailure(e, Streaming(credentials))
             /\ UNCHANGED <<emitted, bodies>>
       \/ /\ Streaming(credentials)
          /\ pc' = "tts_read"
          /\ transport' = "open"
          /\ connection' = "open"
          /\ UNCHANGED <<waiting, emitted, ttsOutcome, bodies>>
       \/ /\ ~Streaming(credentials)
          /\ \E body \in AudioBodies :
                /\ bodies' = Append(bodies, body)
                /\ emitted' = Append(emitted, body)
          /\ pc' = "tts_content"
          /\ waiting' = AfterYield
          /\ transport' = "ended"
          /\ connection' = "released"
          /\ UNCHANGED ttsOutcome
    /\ UNCHANGED <<entry, credentials, voice, content_text, sentences, received,
                   splitCalls, nexts>>
    /\ UNCHANGED <<speechVars, embedVars>>

\* one turn of for line in response.iter_lines(...): the stream ends, or
\* breaks, or delivers a line and the body of the loop runs on it; the
\* connection goes back to the pool when the stream has ended or broken
ReadLine ==
    /\ pc = "tts_read"
    /\ waiting
    /\ \/ /\ TtsEnd(Exhausted)
          /\ transport' = "ended"
          /\ connection' = "released"
          /\ UNCHANGED <<received, emitted>>
       \/ \E e \in StreamFailures :
             /\ TtsEnd(StreamBroken(e))
             /\ transport' = "failed"
             /\ connection' = "released"
             /\ UNCHANGED <<received, emitted>>
       \/ /\ Len(received) < MaxLines
          /\ \E line \in StreamLines :
                /\ received' = Append(received, line)
                /\ LET o == LineOutcome(line)
                   IN  IF o.kind = "raise"
                       THEN /\ TtsEnd(TtsRaise(o.exc))
                            /\ UNCHANGED emitted
                       ELSE IF o.kind = "frame"
                           THEN /\ emitted' = Append(emitted, o.frame)
                                /\ waiting' = AfterYield
                                /\ UNCHANGED <<pc, ttsOutcome>>
                       ELSE UNCHANGED <<pc, waiting, emitted, ttsOutcome>>
          /\ UNCHANGED <<transport, connection>>
    /\ UNCHANGED <<entry, credentials, voice, content_text, sentences, ttsRequests,
                   splitCalls, bodies, nexts>>
    /\ UNCHANGED <<speechVars, embedVars>>

\* _invoke_non_streaming after its yield: the generator returns
AfterContent ==
    /\ pc = "tts_content"
    /\ waiting
    /\ TtsEnd(Exhausted)
    /\ UNCHANGED <<entry, credentials, voice, content_text, sentences, ttsRequests,
                   received, emitted, splitCalls, bodies, nexts, transport,
                   connection>>
    /\ UNCHANGED <<speechVars, embedVars>>

\* the steps of a synthesis call
NextTTS ==
    \/ ConsumerNext
    \/ ConsumerClose
    \/ TtsStart
    \/ TtsPost
    \/ ReadLine
    \/ AfterContent

SpecTTS == InitTTS /\ [][NextTTS]_vars

\* the steps of a call of any of the three
NextAll == Next \/ NextEmbed \/ NextTTS

SpecAll == InitAll /\ [][NextAll]_vars

-----------------------------------------------------------------------------
(* Vocabulary of the properties *)

Polls == Len(statusRequests)

PollEnded == pollOutcome.kind # "none"

LastIsJson == lastResponse.kind = "json"

LastStatus == Get(lastResponse.body, "status", "")

RecognizedStatuses == {"waiting", "doing", "success", "failed"}

\* the last part of an exception's message
LastPart(e) == e.msg[Len(e.msg)]

\* the poll ended with the raise that follows the for loop
IsTimedOut ==
    /\ pollOutcome.kind = "raise"
    /\ Len(pollOutcome.exc.msg) = 5
    /\ pollOutcome.exc.msg[3] = " timed out after "

\* once the poll has ended no status request and no sleep follows
NothingAfterEnd == PollEnded => UNCHANGED <<statusRequests, sleeps>>

\* the poll that received the last response was the last one, and no sleep
\* followed it
EndedOnLastResponse ==
    /\ pc = "done"
    /\ Polls = keepPolling + 1
    /\ Len(sleeps) = keepPolling

-----------------------------------------------------------------------------
(* C1: when a status response says success and carries a result X, after k   *)
(* responses that said waiting or doing (in any mix), the poll returns       *)
(* exactly X, has issued exactly k+1 status requests, at most max_retries,   *)
(* and issues none afterwards; a response that says waiting or doing never   *)
(* ends the poll with anything but the time-out                              *)
C1_SuccessPath ==
    /\ [](LastIsJson /\ LastStatus = "success" /\ "result" \in DOMAIN lastResponse.body
            => /\ pollOutcome = Return(lastResponse.body["result"])
               /\ EndedOnLastResponse
               /\ Polls <= max_retries
               /\ (entry = "_invoke" => invokeOutcome = pollOutcome))
    /\ [](IsNonTerminal(lastResponse) => ~PollEnded \/ IsTimedOut)
    /\ [][NothingAfterEnd]_vars

\* [waiting, doing, success] with result "X": "X" after exactly 3 polls
C1_Witness ==
    /\ pollOutcome = Return("X")
    /\ Polls = 3
    /\ keepPolling = 2
    /\ seen = {"waiting", "doing", "success"}

(* C3: when a status response says failed with errorMsg m, the poll, and    *)
(* the transcription call around it, end in a raise whose message ends      *)
(* with m, on that poll: no status request and no sleep follows             *)
C3_RemoteFailure ==
    /\ [](LastIsJson /\ LastStatus = "failed" /\ "errorMsg" \in DOMAIN lastResponse.body
            => /\ pollOutcome.kind = "raise"
               /\ pollOutcome.exc.msg
                    = <<"Transcription failed: ", lastResponse.body["errorMsg"]>>
               /\ EndedOnLastResponse
               /\ (entry = "_invoke"
                     => /\ invokeOutcome.kind = "raise"
                        /\ LastPart(invokeOutcome.exc) = lastResponse.body["errorMsg"]))
    /\ [][PollEnded => statusRequests' = statusRequests /\ sleeps' = sleeps]_vars

\* a transcription call whose second poll says failed with errorMsg "boom"
C3_Witness ==
    /\ entry = "_invoke"
    /\ LastIsJson /\ LastStatus = "failed"
    /\ invokeOutcome.kind = "raise"
    /\ LastPart(invokeOutcome.exc) = "boom"
    /\ Polls = 2

(* C4: when a status response says success and holds no result, the poll    *)
(* ends in a raise, never in a returned (empty) transcription               *)
C4_NoEmptySuccess ==
    LastIsJson /\ LastStatus = "success" /\ "result" \notin DOMAIN lastResponse.body
        => pollOutcome.kind = "raise"

(* C5: every status response has an outcome: the poll has ended, or the      *)
(* status was waiting or doing and the loop goes on; a status outside        *)
(* waiting, doing, success, failed (or none at all) ends the poll in a       *)
(* raise on that poll, with no sleep and no status request after it          *)
C5_UnknownStatus ==
    /\ [](LastIsJson /\ LastStatus \notin RecognizedStatuses
            => /\ pollOutcome.kind = "raise"
               /\ LastPart(pollOutcome.exc) = LastStatus
               /\ EndedOnLastResponse)
    /\ [](lastResponse # NoResponse
            => PollEnded \/ (IsNonTerminal(lastResponse) /\ pc \in {"sleep", "poll"}))
    /\ [][PollEnded => sleeps' = sleeps /\ statusRequests' = statusRequests]_vars

\* the status "paused" on the first poll of a budget of 60
C5_Witness ==
    /\ LastIsJson /\ LastStatus = "paused"
    /\ pollOutcome.kind = "raise"
    /\ Polls = 1
    /\ max_retries = DefaultMaxRetries

(* C6: when the i-th status request fails (a requests exception, a body     *)
(* that cannot be parsed or is no object), the poll ends in a raise on that *)
(* poll, so exactly i requests are issued; a further request is issued only *)
(* after a response that said waiting or doing                              *)
C6_TransportNotRetried ==
    /\ [](lastResponse.kind \in {"failure", "list"}
            => /\ pollOutcome.kind = "raise"
               /\ pollOutcome.exc.type = "InvokeBadRequestError"
               /\ EndedOnLastResponse)
    /\ [][Len(statusRequests') > Len(statusRequests)
            => lastResponse = NoResponse \/ IsNonTerminal(lastResponse)]_vars

\* the third request of a budget of 60 fails
C6_Witness ==
    /\ lastResponse.kind = "failure"
    /\ pollOutcome.kind = "raise"
    /\ Polls = 3
    /\ max_retries = DefaultMaxRetries

(* C2: the poll never issues more than max_retries status requests; it    *)
(* ends in the time-out only after exactly max_retries requests that all    *)
(* said waiting or doing; and when every response says waiting or doing,    *)
(* the poll ends, in the time-out and not in a result                       *)
OnlyNonTerminal == lastResponse = NoResponse \/ IsNonTerminal(lastResponse)

C2_Timeout ==
    /\ [](Polls <= max_retries)
    /\ [](IsTimedOut => pc = "done" /\ Polls = max_retries /\ keepPolling = max_retries)
    /\ [](PollEnded /\ OnlyNonTerminal => IsTimedOut)
    /\ ([]OnlyNonTerminal => [](pc = "call" => <>IsTimedOut))

\* all-waiting with max_retries = 3: the time-out after exactly 3 polls
C2_Witness ==
    /\ IsTimedOut
    /\ max_retries = 3
    /\ Polls = 3
    /\ seen = {"waiting"}

(* C7, as amended: called with the default interval, the sleeps of attempts *)
(* 1 through 12 last the base interval, the first increase is made in the   *)
(* cycle of attempt 12 (loop index 11, the first above 10), so the sleep of *)
(* attempt 13 is the first of base+1; every later cycle adds the step until *)
(* the ceiling is reached                                                   *)
C7_BackoffStart ==
    base = DefaultInterval =>
        \A i \in DOMAIN sleeps :
            sleeps[i] = IF i <= BackoffAfterRetry + 2 THEN base
                        ELSE Min(base + IntervalStep * (i - (BackoffAfterRetry + 2)),
                                 IntervalCeiling)

\* a run of the default budget that slept base at attempt 12, base+1 at
\* attempt 13 and the ceiling at the end
C7_Witness ==
    /\ base = DefaultInterval
    /\ Len(sleeps) = DefaultMaxRetries
    /\ sleeps[BackoffAfterRetry + 2] = base
    /\ sleeps[BackoffAfterRetry + 3] = base + IntervalStep
    /\ sleeps[DefaultMaxRetries] = IntervalCeiling

(* C7, as claimed: the sleeps of attempts 1 through 11 last the base        *)
(* interval, the first increase is made in the cycle of attempt 11, so the  *)
(* sleep of attempt 12 lasts base+1, and every later cycle adds the step    *)
(* until the ceiling is reached                                             *)
C7_Claimed ==
    base = DefaultInterval =>
        \A i \in DOMAIN sleeps :
            sleeps[i] = IF i <= BackoffAfterRetry + 1 THEN base
                        ELSE Min(base + IntervalStep * (i - (BackoffAfterRetry + 1)),
                                 IntervalCeiling)

(* C8: while a poll runs, interval is at least the base it was called with, *)
(* never decreases, grows by at most the step in one step of the loop, and  *)
(* stays at or below the ceiling when the base is; the attempt index grows  *)
(* by exactly one per poll cycle (one status request each) and stays below  *)
(* max_retries, as does the number of requests at or below it               *)
PollRunning == pc \in {"call", "poll", "sleep"} \/ PollEnded

C8_PollSchedule ==
    /\ [](PollRunning
            => /\ interval >= base
               /\ (base <= IntervalCeiling => interval <= IntervalCeiling)
               /\ (max_retries > 0 => retry < max_retries)
               /\ Polls <= max_retries
               /\ (pc = "poll" => Polls = retry)
               /\ (pc = "sleep" => Polls = retry + 1))
    /\ [][PollRunning
            => /\ interval' >= interval
               /\ interval' - interval <= IntervalStep
               /\ retry' - retry \in {0, 1}
               /\ (pc = "sleep" /\ pc' = "poll" => retry' = retry + 1)]_vars

\* a poll called with the default interval that has reached the ceiling and
\* goes on
C8_Witness ==
    /\ base = DefaultInterval
    /\ interval = IntervalCeiling
    /\ pc = "poll"
    /\ retry > BackoffAfterRetry

(* C9: the seconds the time-out message reports are the seconds slept: the  *)
(* sum of the arguments of the sleeps of the run                            *)
C9_ElapsedIsSum ==
    IsTimedOut => pollOutcome.exc.msg[4] = ToString(SumSeq(sleeps))

(* C10: no sleep is completed once no further poll can follow: the n-th     *)
(* sleep of a poll is completed only when an (n+1)-th status request is     *)
(* within the attempt budget                                                *)
C10_NoSleepAfterLastPoll ==
    Len(sleeps) > 0 => Len(sleeps) < max_retries

\* the submission came back as a JSON object that holds a taskId
SubmissionGaveTaskId ==
    submitResponse.kind = "json" /\ "taskId" \in DOMAIN submitResponse.body

(* C11: in a transcription call a status request is issued only after the   *)
(* one submission came back with a taskId, and every status request of the  *)
(* call names that taskId; when the submission fails or comes back without  *)
(* a taskId the call ends in a raise and issues no status request           *)
C11_SubmissionProtocol ==
    entry = "_invoke" =>
        /\ Len(submitRequests) <= 1
        /\ (Polls > 0 =>
              /\ Len(submitRequests) = 1
              /\ SubmissionGaveTaskId
              /\ \A i \in DOMAIN statusRequests :
                    statusRequests[i].task = submitResponse.body["taskId"])
        /\ (submitResponse # NoResponse /\ ~SubmissionGaveTaskId
              => /\ invokeOutcome.kind = "raise"
                 /\ pc = "done"
                 /\ Polls = 0)

\* a transcription call whose submission returned "t2" and that has polled twice
C11_Witness ==
    /\ entry = "_invoke"
    /\ submitResponse.kind = "json"
    /\ Get(submitResponse.body, "taskId", "") = "t2"
    /\ Polls = 2

-----------------------------------------------------------------------------
(* Vocabulary of the embedding properties *)

\* an embedding call got past its parameters
EmbedStarted ==
    /\ entry = "embedding._invoke"
    /\ pc # "embed"
    /\ EmbedBuildError(credentials) = NoExc

EmbedReturned == EmbedStarted /\ embedOutcome.kind = "return"

\* the least number of batches of at most b texts that hold n texts
Ceil(n, b) == (n + b - 1) \div b

\* the texts of the requests, in the order the requests were issued
RECURSIVE Sent(_)
Sent(reqs) ==
    IF reqs = <<>> THEN <<>> ELSE reqs[1].input_texts \o Sent(Tail(reqs))

\* the greatest q with q * d <= n
Floor(n, d) == CHOOSE q \in 0..n : q * d <= n /\ (q + 1) * d > n

\* the input text that stands at place j of request r
InputOf(r, j) == texts[r.i + j]

(* C13: for n texts and max_chunks b the call issues ceil(n/b) requests,    *)
(* none when n = 0; no request carries more than b texts, every request     *)
(* but the last carries b, and the requests' texts in issue order are the   *)
(* truncated inputs in their order; when every response carried one vector  *)
(* per text the result has n vectors and vector i is that of text i         *)
C13_Partitioning ==
    EmbedStarted =>
        /\ Len(processed_texts) = Len(texts)
        /\ Len(embedRequests) <= Ceil(Len(texts), max_chunks)
        /\ \A k \in DOMAIN embedRequests :
              /\ Len(embedRequests[k].input_texts) <= max_chunks
              /\ Len(embedRequests[k].input_texts) >= 1
              /\ k < Ceil(Len(texts), max_chunks)
                    => Len(embedRequests[k].input_texts) = max_chunks
        /\ Sent(embedRequests) = SubSeq(processed_texts, 1, Len(Sent(embedRequests)))
        /\ embedOutcome.kind = "return" =>
              /\ Len(embedRequests) = Ceil(Len(texts), max_chunks)
              /\ Sent(embedRequests) = processed_texts
              /\ shapeFaults = 0 =>
                    /\ Len(embedOutcome.embeddings) = Len(texts)
                    /\ \A i \in DOMAIN texts :
                          embedOutcome.embeddings[i] = VectorOf(processed_texts[i])

\* five texts in batches of two: three requests of 2, 2 and 1 texts, and
\* five vectors returned
C13_Witness ==
    /\ EmbedReturned
    /\ Len(texts) = 5
    /\ max_chunks = 2
    /\ Len(embedRequests) = 3
    /\ Len(embedRequests[1].input_texts) = 2
    /\ Len(embedRequests[2].input_texts) = 2
    /\ Len(embedRequests[3].input_texts) = 1
    /\ shapeFaults = 0
    /\ Len(embedOutcome.embeddings) = 5

(* C14: a response whose number of vectors differs from the number of       *)
(* texts of its batch makes the call fail, and the call never returns a     *)
(* result whose number of vectors differs from the number of input texts    *)
C14_VectorCountChecked ==
    entry = "embedding._invoke" =>
        /\ shapeFaults > 0 => embedOutcome.kind = "raise"
        /\ embedOutcome.kind = "return" =>
              Len(embedOutcome.embeddings) = Len(texts)

(* C15: every text of every request whose input text is not empty has at    *)
(* least one character                                                      *)
C15_NeverEmptied ==
    entry = "embedding._invoke" =>
        \A k \in DOMAIN embedRequests :
            \A j \in DOMAIN embedRequests[k].input_texts :
                Len(InputOf(embedRequests[k], j)) > 0
                    => Len(embedRequests[k].input_texts[j]) >= 1

\* the truncation has run, and text k went through it as the rule says
TruncatedByRule(k) ==
    LET t == texts[k]
        p == processed_texts[k]
        num == NumTokens(tokenizer, t)
    IN  /\ num <= context_size => p = t
        /\ num > context_size =>
              /\ p = SubSeq(t, 1, Floor(Len(t) * context_size, num))
              /\ Len(p) < Len(t)
              /\ num = 2 * context_size => Len(p) = Floor(Len(t), 2)

(* C16: a text of at most context_size tokens is sent as it is; a text of   *)
(* more tokens is sent as its prefix of floor(len * context_size / tokens)  *)
(* characters, which is shorter than the text and is floor(len / 2) when    *)
(* the tokens are twice the context size; the caller's texts do not change  *)
C16_TruncationRule ==
    /\ [](EmbedStarted =>
            /\ DOMAIN processed_texts = DOMAIN texts
            /\ \A k \in DOMAIN texts : TruncatedByRule(k)
            /\ \A r \in DOMAIN embedRequests :
                  \A j \in DOMAIN embedRequests[r].input_texts :
                      embedRequests[r].input_texts[j]
                          = processed_texts[embedRequests[r].i + j])
    /\ [][texts' = texts]_vars

\* a text of three characters and two tokens under a context size of one
\* was sent as its first character
C16_Witness ==
    /\ EmbedStarted
    /\ context_size = 1
    /\ \E r \in DOMAIN embedRequests :
          \E j \in DOMAIN embedRequests[r].input_texts :
              /\ Len(InputOf(embedRequests[r], j)) = 3
              /\ NumTokens(tokenizer, InputOf(embedRequests[r], j)) = 2
              /\ embedRequests[r].input_texts[j]
                    = SubSeq(InputOf(embedRequests[r], j), 1, 1)

\* the last response is a JSON object whose usage is missing, or holds no
\* total_tokens, or a null one
UsageMissing ==
    \/ lastUsage.state = "absent"
    \/ /\ lastUsage.state = "object"
       /\ lastUsage.total \in {"absent", "null"}

(* C17: the total the call returns, and its running total while it has not  *)
(* failed, is the sum of the total_tokens the responses reported; a         *)
(* response without usage, without total_tokens or with a null one adds     *)
(* nothing and does not make the call fail; the running total never         *)
(* decreases                                                                *)
C17_UsageAggregation ==
    /\ [](EmbedStarted =>
            /\ embedOutcome.kind # "raise" => total_tokens = reportedTokens
            /\ embedOutcome.kind = "return" => embedOutcome.tokens = reportedTokens
            /\ UsageMissing => embedOutcome.kind # "raise")
    /\ [][total_tokens' >= total_tokens]_vars
    /\ [][UsageMissing' /\ outstanding' < outstanding
            => total_tokens' = total_tokens]_vars

\* three batches, the last of them with a null total_tokens, and a total of
\* two tokens returned
C17_Witness ==
    /\ EmbedReturned
    /\ Len(embedRequests) = 3
    /\ lastUsage.total = "null"
    /\ embedOutcome.tokens = 2

(* C18: at most one request is outstanding; a request is issued only when   *)
(* none is outstanding and the responses to all earlier ones have been      *)
(* taken and their embeddings appended; request k is that of batch k        *)
C18_Sequential ==
    /\ [](entry = "embedding._invoke" =>
            /\ outstanding <= 1
            /\ \A k \in DOMAIN embedRequests :
                  embedRequests[k].i = (k - 1) * max_chunks)
    /\ [][Len(embedRequests') # Len(embedRequests) =>
            /\ outstanding = 0
            /\ Len(embedRequests') = Len(embedRequests) + 1
            /\ cursor = Len(embedRequests) * max_chunks
            /\ shapeFaults = 0 => Len(all_embeddings) = cursor]_vars

\* the third request is out and the first two responses are in
C18_Witness ==
    /\ entry = "embedding._invoke"
    /\ Len(embedRequests) = 3
    /\ outstanding = 1
    /\ Len(all_embeddings) = 2 * max_chunks
    /\ max_chunks = 2

-----------------------------------------------------------------------------
(* Vocabulary of the text-to-speech properties *)

\* a synthesis call in the streaming mode
TtsStreaming == entry = "tts._invoke" /\ Streaming(credentials)

IsDataLine(line) == Len(line) > 0 /\ line[1] = "data:"

\* the rest of a data line is not JSON
IsMalformed(line) == IsDataLine(line) /\ JsonLoads(Rest(line)).kind = "error"

\* the audioFrame of a data line whose rest is a JSON object, or ""
AudioFrameOf(line) ==
    IF IsDataLine(line) /\ JsonLoads(Rest(line)).kind = "object"
    THEN Get(JsonLoads(Rest(line)).obj, "audioFrame", "")
    ELSE ""

\* an empty line, a line without the prefix, or a data line whose object
\* has no audioFrame or an empty one
IsQuiet(line) ==
    \/ ~IsDataLine(line)
    \/ JsonLoads(Rest(line)).kind = "object" /\ AudioFrameOf(line) = ""

\* the frames of the lines, in order: the base64 decoding of every
\* non-empty audioFrame that has one
RECURSIVE Decoded(_)
Decoded(lines) ==
    IF lines = <<>> THEN <<>>
    ELSE (IF AudioFrameOf(lines[1]) # "" /\ B64Decode(AudioFrameOf(lines[1])).ok
          THEN <<B64Decode(AudioFrameOf(lines[1])).bytes>>
          ELSE <<>>) \o Decoded(Tail(lines))

\* the step delivers a line
LineDelivered == Len(received') = Len(received) + 1

(* C19: in the streaming mode the frames emitted are, in the order of the   *)
(* lines delivered, the base64 decodings of the non-empty audioFrame of     *)
(* the data lines that hold a JSON object, where the audioFrame has a       *)
(* base64 decoding; an empty line, a line without                           *)
(* the data: prefix and a data line whose object has no or an empty         *)
(* audioFrame emit nothing and do not end the stream; no line emits more    *)
(* than one frame                                                           *)
C19_FrameDecoderOutput ==
    /\ [](TtsStreaming =>
            /\ emitted = Decoded(received)
            /\ Len(emitted) <= Len(received))
    /\ [][LineDelivered =>
            /\ Len(emitted') <= Len(emitted) + 1
            /\ IsQuiet(received'[Len(received')]) =>
                  /\ emitted' = emitted
                  /\ pc' = "tts_read"
                  /\ ttsOutcome' = NoTtsOutcome]_vars

\* an event line and the two frame lines were delivered, and the frames hi
\* and bye emitted
C19_Witness ==
    /\ TtsStreaming
    /\ received = <<<<"event:", "ping">>,
                    <<"data:", "{\"audioFrame\":\"aGk=\"}">>,
                    <<"data:", "{\"audioFrame\":\"Ynll\"}">>>>
    /\ emitted = <<"hi", "bye">>

(* C20: a data line whose rest is not JSON emits no frame and does not end  *)
(* the stream, and the frames of the lines delivered after it are emitted   *)
(* in order, after those of the lines before it                             *)
C20_MalformedSkipped ==
    /\ [](TtsStreaming =>
            \A i \in DOMAIN received :
                IsMalformed(received[i]) =>
                    emitted = Decoded(SubSeq(received, 1, i - 1))
                                \o Decoded(SubSeq(received, i + 1, Len(received))))
    /\ [][LineDelivered /\ IsMalformed(received'[Len(received')]) =>
            /\ emitted' = emitted
            /\ pc' = "tts_read"
            /\ waiting'
            /\ ttsOutcome' = NoTtsOutcome]_vars

\* a line that is not JSON was delivered, then the two frame lines, and
\* the frames hi and bye were emitted
C20_Witness ==
    /\ TtsStreaming
    /\ received = <<<<"data:", "not-json">>,
                    <<"data:", "{\"audioFrame\":\"aGk=\"}">>,
                    <<"data:", "{\"audioFrame\":\"Ynll\"}">>>>
    /\ emitted = <<"hi", "bye">>

-----------------------------------------------------------------------------
(* Vocabulary of the property of all three operations *)

\* the credential fields the operation called requires
RequiredFields ==
    IF entry = "tts._invoke" THEN {"project_id", "api_key", "easyllm_id"}
    ELSE {"project_id", "api_key"}

\* a required field is missing or empty
MissingRequired ==
    \E k \in RequiredFields : k \notin DOMAIN credentials \/ credentials[k] = ""

\* the HTTP requests the call has issued
RequestsIssued ==
    Len(submitRequests) + Len(statusRequests) + Len(embedRequests) + Len(ttsRequests)

\* the exception the operation called has ended with, or NoExc
CallRaised ==
    IF entry = "tts._invoke" THEN ttsOutcome.exc
    ELSE IF entry = "embedding._invoke" THEN embedOutcome.exc
    ELSE invokeOutcome.exc

\* the messages that name a required field
RequiredMessages ==
    {<<"project_id is required">>, <<"api_key is required">>}
        \cup (IF entry = "tts._invoke" THEN {<<"easyllm_id is required">>} ELSE {})

\* where a call stands before its first step
AtEntry == pc \in {"build", "embed", "tts_start"}

(* C12: a transcription, an embedding or a synthesis whose credentials      *)
(* lack a required field, or hold it empty, issues no HTTP request, and     *)
(* its first step ends it with a ValueError that names a required field     *)
(* (a synthesis the consumer gave up before its first step has none)        *)
C12_ConfigFailsFast ==
    entry # "_poll_task_result" /\ MissingRequired =>
        /\ RequestsIssued = 0
        /\ AtEntry \/ pc = "done"
        /\ pc = "done" /\ ttsOutcome # Closed =>
              /\ CallRaised.type = "ValueError"
              /\ CallRaised.msg \in RequiredMessages

\* a synthesis with an empty easyllm_id has ended with a ValueError
C12_Witness ==
    /\ entry = "tts._invoke"
    /\ Truthy(credentials, "project_id")
    /\ Truthy(credentials, "api_key")
    /\ Get(credentials, "easyllm_id", "") = ""
    /\ pc = "done"
    /\ ttsOutcome.exc = Exc("ValueError", <<"easyllm_id is required">>)
    /\ RequestsIssued = 0

(***************************************************************************)
(* The transport of a synthesis                                            *)
(***************************************************************************)

\* the request or the response stream failed: a connection error, a
\* timeout or a status that is not 2xx
TransportFailed == entry = "tts._invoke" /\ transport = "failed"

(* C21: when the transport fails before the stream has ended, the          *)
(* generator ends by raising InvokeBadRequestError to the consumer and not *)
(* by returning; the frames of the lines received before the failure have  *)
(* been emitted, in order, and no frame is emitted and no line read after  *)
(* the failure                                                             *)
C21_TransportFailure ==
    /\ [](TransportFailed =>
            /\ pc = "done"
            /\ ttsOutcome.kind = "raise"
            /\ ttsOutcome.exc.type = "InvokeBadRequestError"
            /\ emitted = Decoded(received))
    /\ [][TransportFailed =>
            /\ emitted' = emitted
            /\ received' = received
            /\ ttsOutcome' = ttsOutcome]_vars

\* the stream broke after the frame hi had been emitted and an event line
\* read
C21_Witness ==
    /\ TtsStreaming
    /\ TransportFailed
    /\ received = <<<<"data:", "{\"audioFrame\":\"aGk=\"}">>, <<"event:", "ping">>>>
    /\ emitted = <<"hi">>
    /\ ttsOutcome.kind = "raise"

(***************************************************************************)
(* The voice and the mode of a synthesis                                   *)
(***************************************************************************)

\* the voice the remote service is to be asked for
VoiceToSend ==
    IF voice \in SUPPORTED_VOICES THEN voice ELSE DEFAULT_VOICE

(* C22: whatever voice is asked for, one of the table, one outside it or   *)
(* none, every request carries a voice of the table of supported voices:   *)
(* the one asked for when it is in the table and the default voice         *)
(* otherwise; and the call never fails for the voice: it raises nothing    *)
(* but the ValueError of a required field and the InvokeBadRequestError    *)
(* of the remote call                                                      *)
C22_VoiceLeniency ==
    entry = "tts._invoke" =>
        /\ \A i \in DOMAIN ttsRequests :
              /\ ttsRequests[i].voice \in SUPPORTED_VOICES
              /\ ttsRequests[i].voice = VoiceToSend
        /\ ttsOutcome.kind = "raise" =>
              \/ /\ ttsOutcome.exc.type = "ValueError"
                 /\ ttsOutcome.exc.msg \in RequiredMessages
              \/ ttsOutcome.exc.type = "InvokeBadRequestError"

\* a request for the voice robot, which is not in the table, was sent with
\* the default voice and answered with a frame
C22_Witness ==
    /\ entry = "tts._invoke"
    /\ voice = "robot"
    /\ Len(ttsRequests) = 1
    /\ ttsRequests[1].voice = DEFAULT_VOICE
    /\ emitted = <<"hi">>

\* the credentials ask for the streaming mode: the flag is true, or unset
StreamingAsked ==
    "streaming" \notin DOMAIN credentials \/ credentials["streaming"]

(* C23: with the streaming flag false every request goes to the            *)
(* non-streaming endpoint and the items emitted are the whole response     *)
(* bodies, one item for a body, no line of it being read or decoded; with  *)
(* the flag true or unset every request goes to the streaming endpoint and *)
(* the items emitted are the decoded frames, one for a frame; in both      *)
(* modes the request carries the text chunks in their order                *)
C23_ModeSelection ==
    entry = "tts._invoke" =>
        /\ \A i \in DOMAIN ttsRequests : ttsRequests[i].text = sentences
        /\ Len(ttsRequests) <= 1
        /\ IF StreamingAsked
           THEN /\ \A i \in DOMAIN ttsRequests :
                      /\ ttsRequests[i].endpoint = "voice/synthesize-audio-stream"
                      /\ ttsRequests[i].stream
                /\ emitted = Decoded(received)
                /\ bodies = <<>>
           ELSE /\ \A i \in DOMAIN ttsRequests :
                      /\ ttsRequests[i].endpoint = "voice/synthesize-audio"
                      /\ ~ttsRequests[i].stream
                /\ emitted = bodies
                /\ Len(bodies) <= Len(ttsRequests)
                /\ received = <<>>
                /\ pc # "tts_read"

\* a text of two chunks was synthesized in the non-streaming mode: the one
\* request carried both chunks and its body was emitted as one item
C23_Witness ==
    /\ entry = "tts._invoke"
    /\ ~StreamingAsked
    /\ Len(sentences) = 2
    /\ Len(ttsRequests) = 1
    /\ ttsRequests[1].text = sentences
    /\ emitted = <<"audio">>
    /\ ttsOutcome = Exhausted

(***************************************************************************)
(* The chunks of a synthesis                                               *)
(***************************************************************************)

\* the text as one chunk
WholeText == <<Piece(1, content_text.len)>>

(* C24: a text of at most 500 characters is never split: every request for *)
(* it carries exactly one chunk, the text itself, and the splitter is not  *)
(* called; the splitter is called, and once, only for a text of more than  *)
(* 500 characters                                                          *)
C24_ShortTextNotSplit ==
    entry = "tts._invoke" =>
        /\ splitCalls <= 1
        /\ splitCalls > 0 => content_text.len > SplitThreshold
        /\ content_text.len <= SplitThreshold =>
              /\ splitCalls = 0
              /\ sentences \in {<<>>, WholeText}
              /\ \A i \in DOMAIN ttsRequests : ttsRequests[i].text = WholeText

\* a text of exactly 500 characters was sent as one chunk, the splitter
\* not called
C24_Witness ==
    /\ entry = "tts._invoke"
    /\ content_text.len = SplitThreshold
    /\ splitCalls = 0
    /\ Len(ttsRequests) = 1
    /\ ttsRequests[1].text = <<Piece(1, SplitThreshold)>>

(***************************************************************************)
(* Corrupt frames                                                          *)
(***************************************************************************)

\* a data line whose rest is JSON but no object, or an object whose
\* non-empty audioFrame has no base64 decoding
IsCorrupt(line) ==
    /\ IsDataLine(line)
    /\ \/ JsonLoads(Rest(line)).kind \in {"number", "null", "list"}
       \/ /\ AudioFrameOf(line) # ""
          /\ ~B64Decode(AudioFrameOf(line)).ok

(* C26: a data line whose rest is JSON but no object (a number, null, a    *)
(* list), or whose audioFrame has no base64 decoding, is skipped: the      *)
(* frames emitted are those of the other lines, and the generator raises   *)
(* nothing to the consumer unless the transport has failed                 *)
C26_CorruptSkipped ==
    TtsStreaming =>
        /\ emitted = Decoded(received)
        /\ \A i \in DOMAIN received :
              IsCorrupt(received[i]) =>
                  ~(ttsOutcome.kind = "raise" /\ transport # "failed")

(***************************************************************************)
(* Laziness of the decoder                                                 *)
(***************************************************************************)

\* the step emits a frame
FrameEmitted == Len(emitted') = Len(emitted) + 1

(* C27: in the streaming mode a line is read only while the consumer waits *)
(* in next(); the step that emits a frame hands it to the consumer and     *)
(* leaves the generator standing, so that no line is read before the       *)
(* consumer calls next() again; the frames emitted are never more than     *)
(* the calls of next(), so no frame is decoded ahead of the consumer       *)
C27_Laziness ==
    /\ [](TtsStreaming => Len(emitted) <= nexts)
    /\ [][TtsStreaming /\ LineDelivered => waiting]_vars
    /\ [][TtsStreaming /\ FrameEmitted =>
            /\ waiting
            /\ ~waiting'
            /\ Len(received') <= Len(received) + 1
            /\ pc' = "tts_read"]_vars
    /\ [][TtsStreaming /\ ~waiting /\ ~waiting' => received' = received]_vars

\* the consumer has asked twice and has the frames hi and bye; the
\* generator stands at its second yield and the stream is still open
C27_Witness ==
    /\ TtsStreaming
    /\ nexts = 2
    /\ emitted = <<"hi", "bye">>
    /\ Len(received) = 3
    /\ ~waiting
    /\ pc = "tts_read"
    /\ transport = "open"

(***************************************************************************)
(* Release of the transport                                                *)
(***************************************************************************)

(* C28: however a synthesis in the streaming mode ends, by the end of the  *)
(* stream, by an error of the transport or of the decoding, or by the      *)
(* consumer giving the frames up, its HTTP connection is not left open     *)
C28_TransportReleased ==
    TtsStreaming /\ pc = "done" => connection # "open"

(***************************************************************************)
(* A failed batch                                                          *)
(***************************************************************************)

\* a request of the embedding call has failed: a connection error, a
\* timeout, a status that is not 2xx or a body that is not JSON
BatchFailed == entry = "embedding._invoke" /\ failedBatch > 0

(* C29: when the request for a batch fails, the embedding call ends on     *)
(* that batch with a RuntimeError: the failed request is the last one      *)
(* issued, no request is issued after it, and the caller gets neither the  *)
(* vectors nor the token total of the batches before it                    *)
C29_AbortOnFailedBatch ==
    /\ [](BatchFailed =>
            /\ pc = "done"
            /\ embedOutcome.kind = "raise"
            /\ embedOutcome.exc.type = "RuntimeError"
            /\ embedOutcome.embeddings = <<>>
            /\ embedOutcome.tokens = 0
            /\ Len(embedRequests) = failedBatch)
    /\ [][BatchFailed =>
            /\ embedRequests' = embedRequests
            /\ embedOutcome' = embedOutcome]_vars

\* the second request failed after the first had brought a vector and a
\* token, with a third batch still to send
C29_Witness ==
    /\ BatchFailed
    /\ failedBatch = 2
    /\ Len(all_embeddings) = 1
    /\ total_tokens = 1
    /\ HasBatch(cursor + max_chunks, Len(processed_texts))
    /\ embedOutcome.kind = "raise"

====
